---- MODULE Spec2Model ----
(***************************************************************************)
(* Model of tools/schema/gen_supported_message.js: the generator that      *)
(* writes supported_message.rs, and the behaviour of the Rust code it      *)
(* writes (the SupportedMessage enum, its BinaryEncoder impl, node_id,     *)
(* request_handle and decode_by_object_id).                                *)
(*                                                                         *)
(* Identifiers are modelled as sequences of their CamelCase words          *)
(* ("ReadRequest" is <<"Read", "Request">>), so that endsWith("Request")   *)
(* is a test on the last word and `${message_type}_Encoding_DefaultBinary` *)
(* is a concatenation.                                                     *)
(***************************************************************************)
EXTENDS Integers, Sequences, FiniteSets, TLC

\* ------------------------------------------------------------------------
\* Bounds
\* ------------------------------------------------------------------------
MaxStreamLen == 5
MaxSinkCap == 5

\* ------------------------------------------------------------------------
\* The message type list handed to generate_supported_message
\* ------------------------------------------------------------------------
\* the list with one message type entered a second time
message_types_twice ==
  << <<"Service", "Fault">>,
     <<"Read", "Request">>, <<"Read", "Response">>,
     <<"Write", "Request">>, <<"Write", "Response">>,
     <<"Read", "Request">>,
     <<"Call", "Request">>, <<"Call", "Response">> >>

message_types ==
  << <<"Service", "Fault">>,
     <<"Open", "Secure", "Channel", "Request">>, <<"Open", "Secure", "Channel", "Response">>,
     <<"Close", "Secure", "Channel", "Request">>, <<"Close", "Secure", "Channel", "Response">>,
     <<"Get", "Endpoints", "Request">>, <<"Get", "Endpoints", "Response">>,
     <<"Find", "Servers", "Request">>, <<"Find", "Servers", "Response">>,
     <<"Register", "Server", "Request">>, <<"Register", "Server", "Response">>,
     <<"Create", "Session", "Request">>, <<"Create", "Session", "Response">>,
     <<"Close", "Session", "Request">>, <<"Close", "Session", "Response">>,
     <<"Cancel", "Request">>, <<"Cancel", "Response">>,
     <<"Activate", "Session", "Request">>, <<"Activate", "Session", "Response">>,
     <<"Add", "Nodes", "Request">>, <<"Add", "Nodes", "Response">>,
     <<"Add", "References", "Request">>, <<"Add", "References", "Response">>,
     <<"Delete", "Nodes", "Request">>, <<"Delete", "Nodes", "Response">>,
     <<"Delete", "References", "Request">>, <<"Delete", "References", "Response">>,
     <<"Create", "Monitored", "Items", "Request">>, <<"Create", "Monitored", "Items", "Response">>,
     <<"Modify", "Monitored", "Items", "Request">>, <<"Modify", "Monitored", "Items", "Response">>,
     <<"Delete", "Monitored", "Items", "Request">>, <<"Delete", "Monitored", "Items", "Response">>,
     <<"Set", "Monitoring", "Mode", "Request">>, <<"Set", "Monitoring", "Mode", "Response">>,
     <<"Set", "Triggering", "Request">>, <<"Set", "Triggering", "Response">>,
     <<"Create", "Subscription", "Request">>, <<"Create", "Subscription", "Response">>,
     <<"Modify", "Subscription", "Request">>, <<"Modify", "Subscription", "Response">>,
     <<"Delete", "Subscriptions", "Request">>, <<"Delete", "Subscriptions", "Response">>,
     <<"Transfer", "Subscriptions", "Request">>, <<"Transfer", "Subscriptions", "Response">>,
     <<"Set", "Publishing", "Mode", "Request">>, <<"Set", "Publishing", "Mode", "Response">>,
     <<"Browse", "Request">>, <<"Browse", "Response">>,
     <<"Browse", "Next", "Request">>, <<"Browse", "Next", "Response">>,
     <<"Publish", "Request">>, <<"Publish", "Response">>,
     <<"Republish", "Request">>, <<"Republish", "Response">>,
     <<"Translate", "Browse", "Paths", "To", "Node", "Ids", "Request">>,
     <<"Translate", "Browse", "Paths", "To", "Node", "Ids", "Response">>,
     <<"Register", "Nodes", "Request">>, <<"Register", "Nodes", "Response">>,
     <<"Unregister", "Nodes", "Request">>, <<"Unregister", "Nodes", "Response">>,
     <<"Read", "Request">>, <<"Read", "Response">>,
     <<"History", "Read", "Request">>, <<"History", "Read", "Response">>,
     <<"Write", "Request">>, <<"Write", "Response">>,
     <<"History", "Update", "Request">>, <<"History", "Update", "Response">>,
     <<"Call", "Request">>, <<"Call", "Response">> >>

\* String.prototype.endsWith on a CamelCase identifier, for a one-word suffix
endsWith(name, word) == Len(name) > 0 /\ name[Len(name)] = word

ServiceFault == <<"Service", "Fault">>

\* the classification without its ServiceFault case
HandleField_NoFault(message_type) ==
  IF endsWith(message_type, "Request") THEN "request_header"
  ELSE IF endsWith(message_type, "Response") THEN "response_header"
       ELSE "none"

\* The header field the request_handle arm of a message type reads, or
\* "none" when the generator emits no arm for it (neither branch taken)
HandleField(message_type) ==
  IF endsWith(message_type, "Request") THEN "request_header"
  ELSE IF endsWith(message_type, "Response") \/ message_type = ServiceFault
       THEN "response_header"
       ELSE "none"

\* ObjectId::${message_type}_Encoding_DefaultBinary
EncodingDefaultBinary(message_type) == message_type \o <<"Encoding", "DefaultBinary">>

\* ------------------------------------------------------------------------
\* Values of the generated Rust code
\* ------------------------------------------------------------------------
\* A u32 is the pair <<high 16 bits, low 16 bits>> (TLC's integers are
\* narrower than u32)
u32(hi, lo) == <<hi, lo>>
u32_zero == u32(0, 0)
u32_max == u32(2^16 - 1, 2^16 - 1)
Byte == {0, 7}
Handles == {u32_zero, u32(0, 7), u32_max}

Invalid == <<"Invalid">>
AcknowledgeMessage == <<"Acknowledge", "Message">>

\* ObjectId values that are not the binary encoding id of a listed message
OtherObjectIds ==
  { <<"Read", "Request", "Encoding", "DefaultXml">>,
    <<"Query", "First", "Request", "Encoding", "DefaultBinary">>,
    <<"Root", "Folder">>,
    <<"Read", "Request">> }

Range(s) == { s[j] : j \in 1..Len(s) }
ObjectIds == { EncodingDefaultBinary(t) : t \in Range(message_types) } \cup OtherObjectIds

RECURSIVE SeqsUpTo(_, _)
SeqsUpTo(S, n) ==
  IF n = 0 THEN { <<>> }
  ELSE LET shorter == SeqsUpTo(S, n - 1)
       IN shorter \cup { Append(q, b) : q \in { r \in shorter : Len(r) = n - 1 }, b \in S }

Streams == SeqsUpTo(Byte, MaxStreamLen)

\* ------------------------------------------------------------------------
\* The per-message codecs of opcua_types (service_types, tcp_types): fixed
\* layouts, the header reduced to its request_handle, every body field one
\* byte.  The bytes carry no mark of the message type.
\* ------------------------------------------------------------------------
HeaderOf(kind) ==
  IF kind = AcknowledgeMessage THEN "none"
  ELSE IF endsWith(kind, "Request") THEN "request_header" ELSE "response_header"

HeaderOnly ==
  { ServiceFault,
    <<"Close", "Secure", "Channel", "Request">>, <<"Close", "Secure", "Channel", "Response">>,
    <<"Close", "Session", "Response">>, <<"Register", "Server", "Response">>,
    <<"Unregister", "Nodes", "Response">> }

FieldCount(kind) == IF kind \in HeaderOnly THEN 0 ELSE 1

HeaderLen(kind) == IF HeaderOf(kind) = "none" THEN 0 ELSE 4

NewPayload(kind, h, body) ==
  IF HeaderOf(kind) = "request_header"
  THEN [kind |-> kind, request_header |-> [request_handle |-> h], body |-> body]
  ELSE IF HeaderOf(kind) = "response_header"
  THEN [kind |-> kind, response_header |-> [request_handle |-> h], body |-> body]
  ELSE [kind |-> kind, body |-> body]

PayloadsOf(kind) ==
  { NewPayload(kind, h, body) :
      h \in (IF HeaderOf(kind) = "none" THEN {u32_zero} ELSE Handles),
      body \in { b \in SeqsUpTo(Byte, 1) : Len(b) = FieldCount(kind) } }

\* u32 little endian
write_u32(v) == << v[2] % 256, v[2] \div 256, v[1] % 256, v[1] \div 256 >>
read_u32(b) == u32(b[3] + 256 * b[4], b[1] + 256 * b[2])

Codec_bytes(p) ==
  (IF HeaderOf(p.kind) = "none" THEN <<>> ELSE write_u32(p[HeaderOf(p.kind)].request_handle))
    \o p.body

Codec_byte_len(p) == HeaderLen(p.kind) + FieldCount(p.kind)

\* What reaches a sink that takes cap bytes: whole fields, in order
Codec_written(p, cap) ==
  LET bytes == Codec_bytes(p) IN
    IF Len(bytes) <= cap THEN bytes
    ELSE IF cap < HeaderLen(p.kind) THEN <<>>
    ELSE SubSeq(bytes, 1, cap)

Codec_encode(p, cap) ==
  IF Len(Codec_bytes(p)) <= cap
  THEN [kind |-> "Ok", usize |-> Len(Codec_bytes(p))]
  ELSE [kind |-> "Err", status |-> "BadEncodingError"]

Codec_decode(kind, bytes) ==
  IF Len(bytes) < HeaderLen(kind) + FieldCount(kind)
  THEN [kind |-> "Err", status |-> "BadDecodingError"]
  ELSE [kind |-> "Ok",
        payload |-> NewPayload(kind,
                      IF HeaderLen(kind) = 0 THEN u32_zero ELSE read_u32(bytes),
                      SubSeq(bytes, HeaderLen(kind) + 1, HeaderLen(kind) + FieldCount(kind)))]

\* MessageInfo::object_id of a message struct
MessageInfo_object_id(p) == EncodingDefaultBinary(p.kind)

\* From<ObjectId> for NodeId
NodeId(object_id) == [namespace |-> 0, identifier |-> object_id]

\* ------------------------------------------------------------------------
\* State
\* ------------------------------------------------------------------------
VARIABLES
  pc,           \* generator position: "handle_arms", "decode_arms", "variants", "done"
  i,            \* index of the running _.each
  handle_arms,  \* arms of request_handle written so far
  decode_arms,  \* arms of decode_by_object_id written so far
  variants,     \* identifiers in supported_messages_enum![...] written so far
  msg,          \* the SupportedMessage at hand
  concrete,     \* <<m>> when msg was made from the message struct m by into()
  object_id,    \* the ObjectId given to the last decode_by_object_id
  stream,       \* the bytes given to the last decode_by_object_id
  sink,         \* the bytes the last encode wrote
  op,           \* the last operation
  result        \* what it returned

gen_vars == <<pc, i, handle_arms, decode_arms, variants>>
run_vars == <<msg, concrete, object_id, stream, sink, op, result>>
vars == <<pc, i, handle_arms, decode_arms, variants,
          msg, concrete, object_id, stream, sink, op, result>>

NoMessage == [variant |-> <<>>]
NoResult == [kind |-> "None"]

Init ==
  /\ pc = "handle_arms"
  /\ i = 1
  /\ handle_arms = <<>>
  /\ decode_arms = <<>>
  /\ variants = <<>>
  /\ msg = NoMessage
  /\ concrete = <<>>
  /\ object_id = <<>>
  /\ stream = <<>>
  /\ sink = <<>>
  /\ op = "idle"
  /\ result = NoResult

\* ------------------------------------------------------------------------
\* The generator
\* ------------------------------------------------------------------------
Advance(next_pc) ==
  /\ i' = IF i = Len(message_types) THEN 1 ELSE i + 1
  /\ pc' = IF i = Len(message_types) THEN next_pc ELSE pc

\* One iteration of the first _.each: a request_handle arm, if any
GenHandleArm ==
  /\ pc = "handle_arms"
  /\ i <= Len(message_types)
  /\ LET t == message_types[i] IN
       handle_arms' = IF HandleField(t) = "none" THEN handle_arms
                      ELSE Append(handle_arms, [variant |-> t, field |-> HandleField(t)])
  /\ Advance("decode_arms")
  /\ UNCHANGED <<decode_arms, variants>>
  /\ UNCHANGED run_vars

\* the decode arm written with the message type of the entry before
GenDecodeArm_Previous ==
  /\ pc = "decode_arms"
  /\ i <= Len(message_types)
  /\ LET t == message_types[i]
         u == message_types[IF i > 1 THEN i - 1 ELSE i] IN
       decode_arms' = Append(decode_arms, [object_id |-> EncodingDefaultBinary(t), kind |-> u])
  /\ Advance("variants")
  /\ UNCHANGED <<handle_arms, variants>>
  /\ UNCHANGED run_vars

\* One iteration of the second _.each: a decode_by_object_id arm
GenDecodeArm ==
  /\ pc = "decode_arms"
  /\ i <= Len(message_types)
  /\ LET t == message_types[i] IN
       decode_arms' = Append(decode_arms, [object_id |-> EncodingDefaultBinary(t), kind |-> t])
  /\ Advance("variants")
  /\ UNCHANGED <<handle_arms, variants>>
  /\ UNCHANGED run_vars

\* One iteration of the third _.each: an identifier of the enum macro call;
\* after the last one the file is written
GenVariant ==
  /\ pc = "variants"
  /\ i <= Len(message_types)
  /\ variants' = Append(variants, message_types[i])
  /\ Advance("done")
  /\ UNCHANGED <<handle_arms, decode_arms>>
  /\ UNCHANGED run_vars

\* ------------------------------------------------------------------------
\* The generated code
\* ------------------------------------------------------------------------
Panic(message) == [kind |-> "Panic", message |-> message]

\* every into() written as the one of AcknowledgeMessage
Into_Acknowledge(m) == [variant |-> AcknowledgeMessage, value |-> m]

\* impl Into<SupportedMessage> for AcknowledgeMessage and for each $x
Into(m) == [variant |-> m.kind, value |-> m]

InvalidMessage(id) == [variant |-> Invalid, object_id |-> id]

SupportedMessage_byte_len(m) ==
  IF m.variant = Invalid THEN Panic("Unsupported message byte_len")
  ELSE [kind |-> "Value", usize |-> Codec_byte_len(m.value)]

\* encode that returns Ok(0) on Invalid
SupportedMessage_encode_Lenient(m, cap) ==
  IF m.variant = Invalid THEN [kind |-> "Ok", usize |-> 0]
  ELSE Codec_encode(m.value, cap)

SupportedMessage_encode(m, cap) ==
  IF m.variant = Invalid THEN Panic("Unsupported message encode")
  ELSE Codec_encode(m.value, cap)

\* encode whose $x arms write nothing
SupportedMessage_encode_written_AckOnly(m, cap) ==
  IF m.variant = AcknowledgeMessage THEN Codec_written(m.value, cap) ELSE <<>>

\* the bytes encode leaves in a sink that takes cap bytes
SupportedMessage_encode_written(m, cap) ==
  IF m.variant = Invalid THEN <<>>
  ELSE Codec_written(m.value, cap)

\* node_id without the AcknowledgeMessage arm of its own
SupportedMessage_node_id_NoAckArm(m) ==
  IF m.variant = Invalid THEN Panic("Unsupported message invalid, node_id")
  ELSE [kind |-> "Value", node_id |-> NodeId(MessageInfo_object_id(m.value))]

SupportedMessage_node_id(m) ==
  IF m.variant = Invalid THEN Panic("Unsupported message invalid, node_id")
  ELSE IF m.variant = AcknowledgeMessage THEN Panic("Unsupported message node_id")
  ELSE [kind |-> "Value", node_id |-> NodeId(MessageInfo_object_id(m.value))]

\* the first arm of a match that fits, 0 when none does
FirstArm(fit) ==
  IF fit = {} THEN 0 ELSE CHOOSE j \in fit : \A k \in fit : j <= k

\* request_handle whose response arms return 0
request_handle_RequestsOnly(m) ==
  IF m.variant = Invalid \/ m.variant = AcknowledgeMessage THEN [kind |-> "Value", u32 |-> u32_zero]
  ELSE LET j == FirstArm({ a \in 1..Len(handle_arms) : handle_arms[a].variant = m.variant }) IN
         IF j = 0 THEN [kind |-> "NoArm"]
         ELSE IF handle_arms[j].field = "response_header" THEN [kind |-> "Value", u32 |-> u32_zero]
         ELSE [kind |-> "Value", u32 |-> m.value[handle_arms[j].field].request_handle]

\* request_handle, as the arms written by the generator make it; a variant
\* left without an arm makes the match non-exhaustive ("NoArm")
request_handle(m) ==
  IF m.variant = Invalid \/ m.variant = AcknowledgeMessage THEN [kind |-> "Value", u32 |-> u32_zero]
  ELSE LET j == FirstArm({ a \in 1..Len(handle_arms) : handle_arms[a].variant = m.variant }) IN
         IF j = 0 THEN [kind |-> "NoArm"]
         ELSE [kind |-> "Value", u32 |-> m.value[handle_arms[j].field].request_handle]

\* decode_by_object_id whose fallback arm is an error
decode_by_object_id_UnknownIsError(bytes, id) ==
  LET j == FirstArm({ a \in 1..Len(decode_arms) : decode_arms[a].object_id = id }) IN
    IF j = 0 THEN [kind |-> "Err", status |-> "BadDecodingError"]
    ELSE LET decoded == Codec_decode(decode_arms[j].kind, bytes) IN
           IF decoded.kind = "Err" THEN decoded
           ELSE [kind |-> "Ok", msg |-> Into(decoded.payload)]

\* decode_by_object_id that turns a codec failure into Invalid
decode_by_object_id_ErrorIsInvalid(bytes, id) ==
  LET j == FirstArm({ a \in 1..Len(decode_arms) : decode_arms[a].object_id = id }) IN
    IF j = 0 THEN [kind |-> "Ok", msg |-> InvalidMessage(id)]
    ELSE LET decoded == Codec_decode(decode_arms[j].kind, bytes) IN
           IF decoded.kind = "Err" THEN [kind |-> "Ok", msg |-> InvalidMessage(id)]
           ELSE [kind |-> "Ok", msg |-> Into(decoded.payload)]

\* decode_by_object_id, as the arms written by the generator make it
decode_by_object_id(bytes, id) ==
  LET j == FirstArm({ a \in 1..Len(decode_arms) : decode_arms[a].object_id = id }) IN
    IF j = 0 THEN [kind |-> "Ok", msg |-> InvalidMessage(id)]
    ELSE LET decoded == Codec_decode(decode_arms[j].kind, bytes) IN
           IF decoded.kind = "Err" THEN decoded
           ELSE [kind |-> "Ok", msg |-> Into(decoded.payload)]

\* the message structs that have an Into<SupportedMessage>
Concrete == UNION { PayloadsOf(k) : k \in Range(variants) \cup {AcknowledgeMessage} }

Idle == pc = "done" /\ op = "idle"
Held == pc = "done" /\ op # "idle" /\ msg # NoMessage /\ result.kind # "Panic"

\* m.into()
From ==
  /\ Idle
  /\ \E m \in Concrete :
       /\ msg' = Into(m)
       /\ concrete' = <<m>>
  /\ op' = "into"
  /\ UNCHANGED <<object_id, stream, sink, result>>
  /\ UNCHANGED gen_vars

\* SupportedMessage::Invalid(object_id) written out by a caller
NewInvalid ==
  /\ Idle
  /\ \E id \in ObjectIds : msg' = InvalidMessage(id)
  /\ op' = "invalid"
  /\ UNCHANGED <<concrete, object_id, stream, sink, result>>
  /\ UNCHANGED gen_vars

DecodeByObjectId ==
  /\ Idle
  /\ \E id \in ObjectIds, bytes \in Streams :
       /\ object_id' = id
       /\ stream' = bytes
       /\ result' = decode_by_object_id(bytes, id)
       /\ msg' = IF result'.kind = "Ok" THEN result'.msg ELSE NoMessage
  /\ op' = "decode"
  /\ UNCHANGED <<concrete, sink>>
  /\ UNCHANGED gen_vars

ByteLen ==
  /\ Held
  /\ result' = SupportedMessage_byte_len(msg)
  /\ op' = "byte_len"
  /\ UNCHANGED <<msg, concrete, object_id, stream, sink>>
  /\ UNCHANGED gen_vars

Encode ==
  /\ Held
  /\ \E cap \in 0..MaxSinkCap :
       /\ result' = SupportedMessage_encode(msg, cap)
       /\ sink' = SupportedMessage_encode_written(msg, cap)
  /\ op' = "encode"
  /\ UNCHANGED <<msg, concrete, object_id, stream>>
  /\ UNCHANGED gen_vars

GetNodeId ==
  /\ Held
  /\ result' = SupportedMessage_node_id(msg)
  /\ op' = "node_id"
  /\ UNCHANGED <<msg, concrete, object_id, stream, sink>>
  /\ UNCHANGED gen_vars

RequestHandle ==
  /\ Held
  /\ result' = request_handle(msg)
  /\ op' = "request_handle"
  /\ UNCHANGED <<msg, concrete, object_id, stream, sink>>
  /\ UNCHANGED gen_vars

\* the message type's own decode, on the bytes a successful encode wrote
OwnDecode ==
  /\ Held
  /\ op = "encode"
  /\ result.kind = "Ok"
  /\ concrete # <<>>
  /\ result' = Codec_decode(concrete[1].kind, sink)
  /\ op' = "own_decode"
  /\ UNCHANGED <<msg, concrete, object_id, stream, sink>>
  /\ UNCHANGED gen_vars

\* the message goes out of scope (also by the unwinding of a panic)
Drop ==
  /\ pc = "done"
  /\ op # "idle"
  /\ msg' = NoMessage
  /\ concrete' = <<>>
  /\ object_id' = <<>>
  /\ stream' = <<>>
  /\ sink' = <<>>
  /\ op' = "idle"
  /\ result' = NoResult
  /\ UNCHANGED gen_vars

Next ==
  \/ GenHandleArm
  \/ GenDecodeArm
  \/ GenVariant
  \/ From
  \/ NewInvalid
  \/ DecodeByObjectId
  \/ ByteLen
  \/ Encode
  \/ GetNodeId
  \/ RequestHandle
  \/ OwnDecode
  \/ Drop

Spec == Init /\ [][Next]_vars

\* ------------------------------------------------------------------------
\* Properties
\* ------------------------------------------------------------------------
CatalogKinds == Range(message_types)
CatalogObjectIds == { EncodingDefaultBinary(k) : k \in CatalogKinds }
KindsOf(id) == { k \in CatalogKinds : EncodingDefaultBinary(k) = id }
ReadRequest == <<"Read", "Request">>

\* bytes is what the codec of kind writes for some message of that kind
ValidEncoding(kind, bytes) ==
  LET d == Codec_decode(kind, bytes) IN
    d.kind = "Ok" /\ Codec_bytes(d.payload) = bytes

\* C1: for an object id that no listed message has, whatever the bytes,
\* decode_by_object_id returns Ok(Invalid(object_id)) with that very id,
\* never an error.
C1_UnknownTagIsInvalid ==
  (op = "decode" /\ object_id \notin CatalogObjectIds)
    => result = [kind |-> "Ok", msg |-> InvalidMessage(object_id)]

C1_Witness ==
  /\ op = "decode"
  /\ object_id = <<"Query", "First", "Request", "Encoding", "DefaultBinary">>
  /\ stream = <<>>
  /\ result.kind = "Ok"
  /\ msg.variant = Invalid

\* C2: for the object id of a listed message, when the codec of that message
\* fails, decode_by_object_id returns the codec's error unchanged; and an
\* Invalid comes back only for an object id that no listed message has.
C2_CodecErrorPropagated ==
  op = "decode" =>
    /\ \A k \in KindsOf(object_id) :
         Codec_decode(k, stream).kind = "Err" => result = Codec_decode(k, stream)
    /\ (result.kind = "Ok" /\ result.msg.variant = Invalid)
         => object_id \notin CatalogObjectIds

C2_Witness ==
  /\ op = "decode"
  /\ object_id = EncodingDefaultBinary(ReadRequest)
  /\ Len(stream) = 4
  /\ result.kind = "Err"
  /\ msg = NoMessage

\* C3: for the object id of a listed message K, when K's codec decodes the
\* payload p, the result is the variant K holding p: its node_id is the node
\* id of K and its request_handle is the handle in p's header.
C3_DecodeWraps ==
  op = "decode" =>
    \A k \in KindsOf(object_id) :
      LET d == Codec_decode(k, stream) IN
        d.kind = "Ok" =>
          /\ result = [kind |-> "Ok", msg |-> [variant |-> k, value |-> d.payload]]
          /\ SupportedMessage_node_id(result.msg)
               = [kind |-> "Value", node_id |-> NodeId(EncodingDefaultBinary(k))]
          /\ request_handle(result.msg)
               = [kind |-> "Value", u32 |-> d.payload[HeaderOf(k)].request_handle]

C3_Witness ==
  /\ op = "request_handle"
  /\ object_id = EncodingDefaultBinary(ReadRequest)
  /\ stream = <<7, 0, 0, 0, 0>>
  /\ msg.variant = ReadRequest
  /\ result = [kind |-> "Value", u32 |-> u32(0, 7)]

\* C4: request_handle has a value for every variant: 0 for Invalid and
\* AcknowledgeMessage, the request header's handle for a message whose name
\* ends with Request, the response header's handle for a message whose name
\* ends with Response and for ServiceFault; for a request made by into() it
\* is the handle the request was built with.
C4_RequestHandle ==
  op = "request_handle" =>
    /\ result.kind = "Value"
    /\ (msg.variant = Invalid \/ msg.variant = AcknowledgeMessage)
         => result.u32 = u32_zero
    /\ (msg.variant \in CatalogKinds /\ endsWith(msg.variant, "Request"))
         => result.u32 = msg.value.request_header.request_handle
    /\ (msg.variant \in CatalogKinds
          /\ (endsWith(msg.variant, "Response") \/ msg.variant = ServiceFault))
         => result.u32 = msg.value.response_header.request_handle
    /\ (concrete # <<>> /\ endsWith(msg.variant, "Request"))
         => result.u32 = concrete[1].request_header.request_handle

C4_Witness ==
  /\ op = "request_handle"
  /\ concrete # <<>>
  /\ msg.variant = ReadRequest
  /\ result = [kind |-> "Value", u32 |-> u32_max]

\* C5: byte_len and encode panic on Invalid, whatever the object id, and then
\* nothing is written; on every other variant, AcknowledgeMessage included,
\* they return what the codec of the held message returns.
C5_InvalidPanics ==
  /\ (op \in {"byte_len", "encode"} /\ msg.variant = Invalid)
       => (result.kind = "Panic" /\ sink = <<>>)
  /\ (op = "byte_len" /\ msg.variant # Invalid)
       => result = [kind |-> "Value", usize |-> Codec_byte_len(msg.value)]
  /\ (op = "encode" /\ msg.variant # Invalid)
       => \E cap \in 0..MaxSinkCap :
            /\ result = Codec_encode(msg.value, cap)
            /\ sink = Codec_written(msg.value, cap)

C5_Witness ==
  /\ op = "encode"
  /\ msg = InvalidMessage(<<"Root", "Folder">>)
  /\ result.kind = "Panic"

\* C6: node_id is the node id of the held message's kind for every listed
\* message, and panics on Invalid and on AcknowledgeMessage.
C6_NodeId ==
  op = "node_id" =>
    IF msg.variant = Invalid \/ msg.variant = AcknowledgeMessage
    THEN result.kind = "Panic"
    ELSE /\ msg.variant \in CatalogKinds
         /\ result = [kind |-> "Value", node_id |-> NodeId(EncodingDefaultBinary(msg.variant))]

C6_Witness ==
  /\ op = "node_id"
  /\ msg.variant = AcknowledgeMessage
  /\ result.kind = "Panic"

\* C7: for a message m of a listed kind K, m.into() has the node id of K,
\* and K's own decode of the bytes that encoding m.into() wrote gives a
\* message equal to m.
C7_RoundTrip ==
  (concrete # <<>> /\ concrete[1].kind \in CatalogKinds) =>
    /\ op = "node_id"
         => result = [kind |-> "Value", node_id |-> NodeId(EncodingDefaultBinary(concrete[1].kind))]
    /\ op = "own_decode"
         => result = [kind |-> "Ok", payload |-> concrete[1]]

C7_Witness ==
  /\ op = "own_decode"
  /\ concrete # <<>>
  /\ concrete[1].kind = ReadRequest
  /\ concrete[1].request_header.request_handle = u32_max
  /\ sink = <<255, 255, 255, 255, 7>>
  /\ result.kind = "Ok"

\* the bytes given to decode_by_object_id are a valid encoding of a listed
\* message other than k
OtherKindBytes(k) ==
  \E k2 \in CatalogKinds \ {k} : ValidEncoding(k2, stream)

HandleArmKinds == { handle_arms[j].variant : j \in 1..Len(handle_arms) }
DecodeArmKinds == { decode_arms[j].kind : j \in 1..Len(decode_arms) }
DecodeArmIds == { decode_arms[j].object_id : j \in 1..Len(decode_arms) }

\* C9: every listed message type ends with Request, ends with Response or is
\* ServiceFault; so the written file has exactly one request_handle arm for
\* every variant, and for every message decode_by_object_id can produce.
C9_EveryKindClassified ==
  /\ \A t \in CatalogKinds :
       endsWith(t, "Request") \/ endsWith(t, "Response") \/ t = ServiceFault
  /\ pc = "done"
       => /\ Range(variants) = HandleArmKinds
          /\ DecodeArmKinds = HandleArmKinds
          /\ Cardinality(HandleArmKinds) = Len(handle_arms)
          /\ Len(handle_arms) = Len(variants)
          /\ (op = "decode" /\ result.kind = "Ok" /\ result.msg.variant # Invalid)
               => request_handle(result.msg).kind = "Value"

C9_Witness ==
  /\ pc = "done"
  /\ op = "request_handle"
  /\ msg.variant = ServiceFault
  /\ result.kind = "Value"

\* C10: no message type is listed twice; so no two decode arms have the same
\* object id, an object id has at most one decode arm, and a message type
\* has exactly one variant.
C10_TagsUnique ==
  /\ Cardinality(CatalogKinds) = Len(message_types)
  /\ Cardinality(CatalogObjectIds) = Len(message_types)
  /\ Cardinality(DecodeArmIds) = Len(decode_arms)
  /\ Cardinality(Range(variants)) = Len(variants)
  /\ pc = "done"
       => /\ Range(variants) = CatalogKinds
          /\ DecodeArmKinds = CatalogKinds

C10_Witness ==
  /\ pc = "done"
  /\ Len(variants) = Len(message_types)
  /\ Len(decode_arms) = Len(message_types)
  /\ op = "decode"
  /\ result.kind = "Ok"
  /\ result.msg.variant \in CatalogKinds
====
